---- MODULE Spec2Model ----
(***************************************************************************)
(* Model of the Ivy Homes property service (property_service.py) and of    *)
(* the two tools the voice agent registers on top of it (agent.py).        *)
(*                                                                         *)
(* Text is a sequence of symbols (characters), so that lower() and the     *)
(* substring test are computed, not assumed.  A value that Python holds as *)
(* Optional / a dict key that may be missing is a set with no element      *)
(* (None, key missing) or exactly one element.                             *)
(***************************************************************************)
EXTENDS Integers, Sequences, FiniteSets, TLC

VARIABLES
    data_source,   \* self.data_source
    source,        \* self.data_path together with what lies at that path
    properties,    \* self.properties
    phase,         \* "new" before __init__ ran, "ready" after
    raised,        \* TRUE iff the last operation let an exception escape
    op,            \* the call whose result the caller holds, "none" if none
    criteria,      \* arguments of the last search
    max_results,   \* max_results of the last search
    results,       \* list returned by the last search
    scanned,       \* number of catalog records the last search looked at
    property_id,   \* argument of the last get_property_details
    details,       \* Optional[dict] returned by the last get_property_details
    summary_in,    \* argument of the last format_property_summary
    reply,         \* text returned by the last formatter / tool call
    remembered     \* history: one earlier get_property_details call and its
                   \* result, kept to compare later calls with

vars == <<data_source, source, properties, phase, raised, op, criteria,
          max_results, results, scanned, property_id, details, summary_in,
          reply, remembered>>

(***************************************************************************)
(* Bounds of the model.                                                    *)
(***************************************************************************)
MaxCatalog == 2    \* longest catalog a source file holds
MaxUnread == 1     \* the same, for a file the service never opens
MaxResults == 2    \* largest max_results a caller of the service passes
MaxSummary == 4    \* longest list handed to format_property_summary

(***************************************************************************)
(* Program constants.                                                      *)
(***************************************************************************)
DefaultMaxResults == 5
SummaryTop == 3
CroreThreshold == 10000000
LakhUnit == 100000

(***************************************************************************)
(* Optional values and Python truthiness.                                  *)
(***************************************************************************)
None == {}
Some(v) == {v}
Val(o) == CHOOSE v \in o : TRUE

\* dict.get(key, default): the default is used only when the key is missing
Get(o, default) == IF o = None THEN default ELSE Val(o)

\* `if x:` for an Optional number: None and 0 are both falsy
TruthyNum(o) == o # None /\ o # Some(0)

\* `if s:` for an Optional str: None and "" are both falsy
TruthyStr(o) == o # None /\ o # Some(<<>>)

(***************************************************************************)
(* Text.                                                                   *)
(***************************************************************************)
LowerChar(ch) ==
    CASE ch = "B" -> "b"
      [] ch = "F" -> "f"
      [] ch = "K" -> "k"
      [] OTHER -> ch

\* str.lower()
Lower(s) == [i \in 1..Len(s) |-> LowerChar(s[i])]

\* `needle in hay` for two str
Contains(needle, hay) ==
    \E k \in 0..(Len(hay) - Len(needle)) :
        \A i \in 1..Len(needle) : hay[k + i] = needle[i]

Min(a, b) == IF a <= b THEN a ELSE b

(***************************************************************************)
(* Property records.  Every non-id key may be missing from the dict.       *)
(***************************************************************************)
RecA == [id |-> "P1", type |-> Some(<<"F">>), city |-> Some(<<"B">>),
         neighborhood |-> Some(<<"k">>), address |-> Some(<<"m", "g">>),
         price |-> Some(9500000), bedrooms |-> Some(2), bathrooms |-> Some(2),
         description |-> Some(<<"d">>)]

RecB == [id |-> "P2", type |-> Some(<<"f">>), city |-> Some(<<"B">>),
         neighborhood |-> Some(<<"w">>), address |-> None,
         price |-> Some(12000000), bedrooms |-> Some(3), bathrooms |-> Some(2),
         description |-> None]

\* same id as RecA, every optional key missing
RecC == [id |-> "P1", type |-> None, city |-> None,
         neighborhood |-> None, address |-> None,
         price |-> None, bedrooms |-> None, bathrooms |-> None,
         description |-> None]

RecD == [id |-> "p1", type |-> Some(<<"h">>), city |-> Some(<<"b">>),
         neighborhood |-> None, address |-> Some(<<"K">>),
         price |-> Some(0), bedrooms |-> Some(0), bathrooms |-> Some(1),
         description |-> None]

RecordPool == {RecA, RecB, RecC, RecD}

SummaryPool == {RecA, RecB, RecC}

SeqsUpTo(S, n) == UNION {[1..k -> S] : k \in 0..n}

\* a catalog lists each of its records once
Catalogs(n) ==
    {c \in SeqsUpTo(RecordPool, n) :
        \A i, j \in 1..Len(c) : c[i] = c[j] => i = j}

SummaryInputs == SeqsUpTo(SummaryPool, MaxSummary)

PropertyIds == {"P1", "P2", "p1", "P9"}

(***************************************************************************)
(* Arguments of a search.                                                  *)
(***************************************************************************)
LocationArgs == {None, Some(<<"K">>), Some(<<"b", " ", "k">>)}
TypeArgs == {None, Some(<<>>), Some(<<"F">>)}
MinPriceArgs == {None, Some(0), Some(12000000)}
MaxPriceArgs == {None, Some(0), Some(9500000)}
BedroomArgs == {None, Some(0), Some(2)}
BathroomArgs == {None, Some(0), Some(2)}

CriteriaSet ==
    [location : LocationArgs, property_type : TypeArgs,
     min_price : MinPriceArgs, max_price : MaxPriceArgs,
     bedrooms : BedroomArgs, bathrooms : BathroomArgs]

NoCriteria ==
    [location |-> None, property_type |-> None, min_price |-> None,
     max_price |-> None, bedrooms |-> None, bathrooms |-> None]

(***************************************************************************)
(* The data source: whether data_path is set, and what lies at the path.   *)
(*   missing       the path does not exist                                 *)
(*   unreadable    open() raises                                           *)
(*   malformed     json.load() raises                                      *)
(*   not_object    the document parses to something that has no .get       *)
(*   no_collection the document is an object without a "properties" key    *)
(*   ok            the document is an object with a "properties" list      *)
(***************************************************************************)
SourceStates ==
    {"missing", "unreadable", "malformed", "not_object", "no_collection"}

Sources(n) ==
    {[has_path |-> FALSE, state |-> "missing", collection |-> <<>>]}
    \cup {[has_path |-> TRUE, state |-> st, collection |-> <<>>] :
             st \in SourceStates}
    \cup {[has_path |-> TRUE, state |-> "ok", collection |-> c] :
             c \in Catalogs(n)}

DataSources == {"file", "api", "database"}

(***************************************************************************)
(* PropertyService._load_from_file                                         *)
(***************************************************************************)
\* the body of the try block: the value assigned to self.properties, or the
\* exception that leaves it
TryLoad(src, old) ==
    CASE src.state = "missing" -> [properties |-> old, exc |-> FALSE]
      [] src.state = "unreadable" -> [properties |-> old, exc |-> TRUE]
      [] src.state = "malformed" -> [properties |-> old, exc |-> TRUE]
      [] src.state = "not_object" -> [properties |-> old, exc |-> TRUE]
      [] src.state = "no_collection" -> [properties |-> <<>>, exc |-> FALSE]
      [] OTHER -> [properties |-> src.collection, exc |-> FALSE]

\* variant: no except clause, the exception leaves __init__
LoadFromFileUncaught(src, old) ==
    IF ~src.has_path
    THEN [properties |-> old, raised |-> FALSE]
    ELSE [properties |-> TryLoad(src, old).properties,
          raised |-> TryLoad(src, old).exc]

\* `except Exception` catches whatever the try block raised
LoadFromFile(src, old) ==
    IF ~src.has_path
    THEN [properties |-> old, raised |-> FALSE]
    ELSE [properties |-> TryLoad(src, old).properties, raised |-> FALSE]

(***************************************************************************)
(* PropertyService._search_file                                            *)
(***************************************************************************)
PropLocation(prop) ==
    Lower(Get(prop.city, <<>>)) \o <<" ">>
    \o Lower(Get(prop.neighborhood, <<>>)) \o <<" ">>
    \o Lower(Get(prop.address, <<>>))

PassesLocation(prop, location) ==
    IF TruthyStr(location)
    THEN Contains(Lower(Val(location)), PropLocation(prop))
    ELSE TRUE

PassesType(prop, property_type) ==
    IF TruthyStr(property_type)
    THEN Lower(Get(prop.type, <<>>)) = Lower(Val(property_type))
    ELSE TRUE

PassesMinPrice(prop, min_price) ==
    ~(TruthyNum(min_price) /\ Get(prop.price, 0) < Val(min_price))

PassesMaxPrice(prop, max_price) ==
    ~(TruthyNum(max_price) /\ Get(prop.price, 0) > Val(max_price))

\* variant: prop.get("bedrooms", bedrooms), a missing key passes the filter
PassesBedroomsDefaulting(prop, bedrooms) ==
    IF TruthyNum(bedrooms)
    THEN prop.bedrooms = None \/ prop.bedrooms = bedrooms
    ELSE TRUE

PassesBedrooms(prop, bedrooms) ==
    IF TruthyNum(bedrooms) THEN prop.bedrooms = bedrooms ELSE TRUE

PassesBathrooms(prop, bathrooms) ==
    IF TruthyNum(bathrooms) THEN prop.bathrooms = bathrooms ELSE TRUE

\* a record reaches results.append(prop) iff no filter hit `continue`
Appended(prop, c) ==
    /\ PassesLocation(prop, c.location)
    /\ PassesType(prop, c.property_type)
    /\ PassesMinPrice(prop, c.min_price)
    /\ PassesMaxPrice(prop, c.max_price)
    /\ PassesBedrooms(prop, c.bedrooms)
    /\ PassesBathrooms(prop, c.bathrooms)

\* the test that ends the loop, made after the append
CapReached(res, cap) == Len(res) >= cap

RECURSIVE SearchLoop(_, _, _, _, _)
SearchLoop(props, i, c, cap, res) ==
    IF i > Len(props)
    THEN [results |-> res, scanned |-> Len(props), raised |-> FALSE]
    ELSE IF ~Appended(props[i], c)
         THEN SearchLoop(props, i + 1, c, cap, res)
         ELSE LET res2 == Append(res, props[i])
              IN  IF CapReached(res2, cap)
                  THEN [results |-> res2, scanned |-> i, raised |-> FALSE]
                  ELSE SearchLoop(props, i + 1, c, cap, res2)

SearchFile(props, c, cap) == SearchLoop(props, 1, c, cap, <<>>)

\* PropertyService._search_api
SearchApi(c, cap) == [results |-> <<>>, scanned |-> 0, raised |-> FALSE]

\* variant: an unsupported data source raises instead of returning []
SearchPropertiesRaising(ds, props, c, cap) ==
    IF ds = "file" THEN SearchFile(props, c, cap)
    ELSE IF ds = "api" THEN SearchApi(c, cap)
    ELSE [results |-> <<>>, scanned |-> 0, raised |-> TRUE]

\* PropertyService.search_properties
SearchProperties(ds, props, c, cap) ==
    IF ds = "file" THEN SearchFile(props, c, cap)
    ELSE IF ds = "api" THEN SearchApi(c, cap)
    ELSE [results |-> <<>>, scanned |-> 0, raised |-> FALSE]

(***************************************************************************)
(* PropertyService.get_property_details                                    *)
(***************************************************************************)
\* variant: the scan does not return at the first hit, the last hit wins
RECURSIVE LastWithId(_, _, _)
LastWithId(props, i, pid) ==
    IF i > Len(props) THEN None
    ELSE LET later == LastWithId(props, i + 1, pid)
         IN  IF later # None THEN later
             ELSE IF props[i].id = pid THEN Some(props[i])
             ELSE None

RECURSIVE FirstWithId(_, _, _)
FirstWithId(props, i, pid) ==
    IF i > Len(props) THEN None
    ELSE IF props[i].id = pid THEN Some(props[i])
    ELSE FirstWithId(props, i + 1, pid)

GetPropertyDetails(ds, props, pid) ==
    IF ds = "file" THEN FirstWithId(props, 1, pid)
    ELSE IF ds = "api" THEN None
    ELSE None

(***************************************************************************)
(* PropertyService.format_property_summary.  The returned text is the      *)
(* sequence of its parts, each part carrying the values formatted into it. *)
(***************************************************************************)
Apology == [kind |-> "apology"]

Closing == [kind |-> "closing"]

SingleSentence(prop) ==
    [kind |-> "single",
     type |-> Get(prop.type, <<"property">>),
     address |-> Get(prop.address, <<"an available location">>),
     bedrooms |-> Get(prop.bedrooms, 0),
     bathrooms |-> Get(prop.bathrooms, 0),
     price |-> Get(prop.price, 0),
     description |-> Get(prop.description, <<>>)]

ItemClause(i, prop) ==
    [kind |-> "item",
     index |-> i,
     bedrooms |-> Get(prop.bedrooms, 0),
     type |-> Get(prop.type, <<"property">>),
     place |-> Get(prop.neighborhood, Get(prop.city, <<"the area">>)),
     price |-> Get(prop.price, 0)]

Header(n) == [kind |-> "header", count |-> n]

MoreOptions(n) == [kind |-> "more", count |-> n]

\* variant: properties[:2]
TopTwo(props) == SubSeq(props, 1, Min(SummaryTop - 1, Len(props)))

\* properties[:3]
Top(props) == SubSeq(props, 1, Min(SummaryTop, Len(props)))

FormatPropertySummary(props) ==
    IF Len(props) = 0 THEN <<Apology>>
    ELSE IF Len(props) = 1 THEN <<SingleSentence(props[1])>>
    ELSE <<Header(Len(props))>>
         \o [i \in 1..Len(Top(props)) |-> ItemClause(i, Top(props)[i])]
         \o (IF Len(props) > SummaryTop
             THEN <<MoreOptions(Len(props) - SummaryTop)>>
             ELSE <<>>)
         \o <<Closing>>

(***************************************************************************)
(* agent.py: the get_property_details tool's answer.  The catalog records  *)
(* of this model carry no square_feet and no year_built key.               *)
(***************************************************************************)
\* f"{x:.2f}" as a count of hundredths; the model's prices divide exactly
Hundredths(price, unit) == (price * 100) \div unit

PriceStr(price) ==
    IF price >= CroreThreshold
    THEN [unit |-> "crores", hundredths |-> Hundredths(price, CroreThreshold)]
    ELSE [unit |-> "lakhs", hundredths |-> Hundredths(price, LakhUnit)]

DetailsReply(pid, found) ==
    IF found = None
    THEN <<[kind |-> "not_found", id |-> pid]>>
    ELSE LET prop == Val(found)
         IN  <<[kind |-> "details",
                bedrooms |-> Get(prop.bedrooms, 0),
                bathrooms |-> Get(prop.bathrooms, 0),
                neighborhood |-> Get(prop.neighborhood, <<>>),
                city |-> Get(prop.city, <<"Bangalore">>),
                address |-> Get(prop.address, <<"available on request">>),
                price |-> PriceStr(Get(prop.price, 0)),
                square_feet |-> 0,
                description |-> Get(prop.description, <<>>),
                year_built |-> <<"recent year">>]>>

(***************************************************************************)
(* State machine.                                                          *)
(***************************************************************************)
Init ==
    /\ data_source \in DataSources
    /\ source \in Sources(IF data_source = "file" THEN MaxCatalog
                           ELSE MaxUnread)
    /\ properties = <<>>
    /\ phase = "new"
    /\ raised = FALSE
    /\ op = "none"
    /\ criteria = NoCriteria
    /\ max_results = 0
    /\ results = <<>>
    /\ scanned = 0
    /\ property_id = ""
    /\ details = None
    /\ summary_in = <<>>
    /\ reply = <<>>
    /\ remembered = None

\* PropertyService.__init__
Construct ==
    /\ phase = "new"
    /\ phase' = "ready"
    /\ LET loaded == IF data_source = "file"
                     THEN LoadFromFile(source, <<>>)
                     ELSE [properties |-> <<>>, raised |-> FALSE]
       IN  /\ properties' = loaded.properties
           /\ raised' = loaded.raised
    /\ UNCHANGED <<data_source, source, op, criteria, max_results, results,
                   scanned, property_id, details, summary_in, reply,
                   remembered>>

Idle == phase = "ready" /\ op = "none" /\ ~raised

\* variant: the search takes the records it returns out of the catalog
SearchConsuming ==
    /\ Idle
    /\ \E c \in CriteriaSet, cap \in 0..MaxResults :
          LET r == SearchProperties(data_source, properties, c, cap)
          IN  /\ criteria' = c
              /\ max_results' = cap
              /\ results' = r.results
              /\ scanned' = r.scanned
              /\ raised' = r.raised
              /\ properties' =
                    SelectSeq(properties,
                              LAMBDA p : \A i \in 1..Len(r.results) :
                                            r.results[i] # p)
    /\ op' = "search"
    /\ UNCHANGED <<data_source, source, phase,
                   property_id, details, summary_in, reply, remembered>>

\* a call of PropertyService.search_properties
Search ==
    /\ Idle
    /\ \E c \in CriteriaSet, cap \in 0..MaxResults :
          LET r == SearchProperties(data_source, properties, c, cap)
          IN  /\ criteria' = c
              /\ max_results' = cap
              /\ results' = r.results
              /\ scanned' = r.scanned
              /\ raised' = r.raised
    /\ op' = "search"
    /\ UNCHANGED <<data_source, source, properties, phase,
                   property_id, details, summary_in, reply, remembered>>

\* a call of PropertyService.get_property_details
GetById ==
    /\ Idle
    /\ \E pid \in PropertyIds :
          LET found == GetPropertyDetails(data_source, properties, pid)
          IN  /\ property_id' = pid
              /\ details' = found
    /\ op' = "details"
    /\ UNCHANGED <<data_source, source, properties, phase, raised, criteria,
                   max_results, results, scanned, summary_in, reply,
                   remembered>>

\* a call of PropertyService.format_property_summary
Summarize ==
    /\ Idle
    /\ \E l \in SummaryInputs :
          /\ summary_in' = l
          /\ reply' = FormatPropertySummary(l)
    /\ op' = "summary"
    /\ UNCHANGED <<data_source, source, properties, phase, raised, criteria,
                   max_results, results, scanned, property_id, details,
                   remembered>>

\* agent.py: the search_properties tool
ToolSearchProperties ==
    /\ Idle
    /\ \E c \in CriteriaSet :
          LET r == SearchProperties(data_source, properties, c,
                                    DefaultMaxResults)
          IN  /\ criteria' = c
              /\ max_results' = DefaultMaxResults
              /\ results' = r.results
              /\ scanned' = r.scanned
              /\ summary_in' = r.results
              /\ reply' = FormatPropertySummary(r.results)
              /\ raised' = r.raised
    /\ op' = "tool_search"
    /\ UNCHANGED <<data_source, source, properties, phase,
                   property_id, details, remembered>>

\* agent.py: the get_property_details tool
ToolGetPropertyDetails ==
    /\ Idle
    /\ \E pid \in PropertyIds :
          LET found == GetPropertyDetails(data_source, properties, pid)
          IN  /\ property_id' = pid
              /\ details' = found
              /\ reply' = DetailsReply(pid, found)
    /\ op' = "tool_details"
    /\ UNCHANGED <<data_source, source, properties, phase, raised, criteria,
                   max_results, results, scanned, summary_in, remembered>>

\* the caller takes the returned value and the service is ready for the next
\* call; the history variable may keep the first lookup it is offered
Return ==
    /\ phase = "ready"
    /\ op # "none"
    /\ ~raised
    /\ \/ remembered' = remembered
       \/ /\ remembered = None
          /\ op \in {"details", "tool_details"}
          /\ remembered' = Some([id |-> property_id, details |-> details])
    /\ op' = "none"
    /\ criteria' = NoCriteria
    /\ max_results' = 0
    /\ results' = <<>>
    /\ scanned' = 0
    /\ property_id' = ""
    /\ details' = None
    /\ summary_in' = <<>>
    /\ reply' = <<>>
    /\ UNCHANGED <<data_source, source, properties, phase, raised>>

Next ==
    \/ Construct
    \/ Search
    \/ GetById
    \/ Summarize
    \/ ToolSearchProperties
    \/ ToolGetPropertyDetails
    \/ Return

Spec == Init /\ [][Next]_vars

(***************************************************************************)
(* What the claims speak of.                                               *)
(***************************************************************************)
SearchDone == op \in {"search", "tool_search"}

LookupDone == op \in {"details", "tool_details"}

Supplied(o) == o # None

\* the predicates of the contract: a criterion constrains whenever supplied
SatisfiesSupplied(prop, c) ==
    /\ Supplied(c.location) =>
          Contains(Lower(Val(c.location)), PropLocation(prop))
    /\ Supplied(c.property_type) =>
          Lower(Get(prop.type, <<>>)) = Lower(Val(c.property_type))
    /\ Supplied(c.min_price) => Val(c.min_price) <= Get(prop.price, 0)
    /\ Supplied(c.max_price) => Get(prop.price, 0) <= Val(c.max_price)
    /\ Supplied(c.bedrooms) => prop.bedrooms = c.bedrooms
    /\ Supplied(c.bathrooms) => prop.bathrooms = c.bathrooms

\* catalog positions of the records that satisfy every supplied predicate
MatchPositions(props, c) ==
    {i \in 1..Len(props) : SatisfiesSupplied(props[i], c)}

\* the n-th smallest element of a set of positions
RECURSIVE NthPosition(_, _)
NthPosition(S, n) ==
    LET m == CHOOSE x \in S : \A y \in S : x <= y
    IN  IF n = 1 THEN m ELSE NthPosition(S \ {m}, n - 1)

\* the first cap matching records, in catalog order
FirstMatches(props, c, cap) ==
    LET S == MatchPositions(props, c)
        k == Min(cap, Cardinality(S))
    IN  [n \in 1..k |-> props[NthPosition(S, n)]]

\* the records looked at when scanning stops at the cap-th match
ScanLength(props, c, cap) ==
    LET S == MatchPositions(props, c)
    IN  IF cap = 0 THEN 0
        ELSE IF Cardinality(S) >= cap THEN NthPosition(S, cap)
        ELSE Len(props)

\* C1: search returns a sequence whose length is at most result_cap, for
\* every result_cap >= 0, result_cap = 0 included.
C1_LengthWithinCap ==
    SearchDone => Len(results) <= max_results

\* C2: search returns exactly the first result_cap records, in catalog load
\* order, of the records that satisfy every supplied predicate, and scanning
\* stops as soon as result_cap matches are collected.
C2_FirstMatchesInLoadOrder ==
    (SearchDone /\ data_source = "file") =>
        /\ results = FirstMatches(properties, criteria, max_results)
        /\ scanned = ScanLength(properties, criteria, max_results)

\* C3: every returned record satisfies lo <= price <= hi for the supplied
\* bounds, a bound equal to 0 included, a missing price read as 0.
C3_PricesWithinBounds ==
    SearchDone =>
        \A i \in 1..Len(results) :
            /\ Supplied(criteria.min_price) =>
                  Val(criteria.min_price) <= Get(results[i].price, 0)
            /\ Supplied(criteria.max_price) =>
                  Get(results[i].price, 0) <= Val(criteria.max_price)

\* C4: with both bounds supplied and minPrice > maxPrice (maxPrice = 0
\* included) search returns exactly zero records and does not raise.
C4_CrossedBoundsGiveNothing ==
    (/\ SearchDone
     /\ Supplied(criteria.min_price)
     /\ Supplied(criteria.max_price)
     /\ Val(criteria.min_price) > Val(criteria.max_price))
    => (results = <<>> /\ ~raised)

\* C5: when bedrooms (bathrooms) is supplied with any non-negative value,
\* 0 included, every returned record has exactly that many bedrooms
\* (bathrooms).
C5_ExactRoomCounts ==
    SearchDone =>
        \A i \in 1..Len(results) :
            /\ Supplied(criteria.bedrooms) =>
                  results[i].bedrooms = criteria.bedrooms
            /\ Supplied(criteria.bathrooms) =>
                  results[i].bathrooms = criteria.bathrooms

\* C6: getById returns the first record in catalog load order whose id
\* equals the argument exactly, returns the absent value when no record has
\* that id, and a repeated call with the same id returns an equal result.
C6_FirstRecordWithId ==
    LookupDone =>
        /\ (\A i \in 1..Len(properties) : properties[i].id # property_id)
              => details = None
        /\ \A i \in 1..Len(properties) :
              (/\ properties[i].id = property_id
               /\ \A j \in 1..(i - 1) : properties[j].id # property_id)
              => details = Some(properties[i])
        /\ (remembered # None /\ Val(remembered).id = property_id)
              => details = Val(remembered).details
        /\ op = "tool_details"
              => (reply[1].kind = "not_found" <=> details = None)

\* a repeated lookup of an id that two records of the catalog share
C6_Witness ==
    /\ op = "details"
    /\ remembered # None
    /\ Val(remembered).id = property_id
    /\ Len(properties) = 2
    /\ properties[1].id = property_id
    /\ properties[2].id = property_id
    /\ details = Some(properties[1])

LoadFailed ==
    \/ ~source.has_path
    \/ source.state \in SourceStates

C8_CatalogUnchangedAfterLoad ==
    [][phase = "ready" => properties' = properties]_vars

\* a lookup, then a search that returned both records of the catalog
C8_Witness ==
    /\ Len(properties) = 2
    /\ remembered # None
    /\ op = "tool_search"
    /\ Len(results) = 2

\* C9: with the api data source, or an unsupported one, every search returns
\* an empty result, every getById returns the absent value, nothing raises,
\* and the search tool answers with the zero-record apology.
C9_OtherSourcesAnswerEmpty ==
    data_source # "file" =>
        /\ ~raised
        /\ SearchDone => results = <<>>
        /\ LookupDone => details = None
        /\ op = "tool_search" => reply = <<Apology>>

\* the search tool called on an api service whose data file holds a record
C9_Witness ==
    /\ data_source = "api"
    /\ source.has_path
    /\ source.state = "ok"
    /\ source.collection # <<>>
    /\ op = "tool_search"
    /\ reply = <<Apology>>

PartsOfKind(text, kind) == {k \in 1..Len(text) : text[k].kind = kind}

\* the clause speaks of this record: the values the record holds are the
\* values the clause carries
Describes(part, i, prop) ==
    /\ part.index = i
    /\ prop.bedrooms # None => part.bedrooms = Val(prop.bedrooms)
    /\ prop.type # None => part.type = Val(prop.type)
    /\ prop.price # None => part.price = Val(prop.price)
    /\ prop.neighborhood # None => part.place = Val(prop.neighborhood)
    /\ (prop.neighborhood = None /\ prop.city # None)
          => part.place = Val(prop.city)

\* C10: for n >= 2 records summarize states the total n, describes exactly
\* min(n, 3) records, the first ones in input order, states the omitted
\* count n - 3 iff n > 3, and ends with the closing invitation; for n = 0 it
\* returns the fixed non-empty apology.
C10_SummaryShape ==
    op \in {"summary", "tool_search"} =>
        LET n == Len(summary_in)
            m == Min(n, 3)
        IN  /\ n = 0 => (reply = <<Apology>> /\ Len(reply) > 0)
            /\ n >= 2 =>
                  /\ reply[1] = Header(n)
                  /\ PartsOfKind(reply, "header") = {1}
                  /\ PartsOfKind(reply, "item") = 2..(1 + m)
                  /\ \A i \in 1..m : Describes(reply[1 + i], i, summary_in[i])
                  /\ PartsOfKind(reply, "more") =
                        (IF n > 3 THEN {2 + m} ELSE {})
                  /\ \A k \in PartsOfKind(reply, "more") :
                        reply[k].count = n - 3
                  /\ PartsOfKind(reply, "closing") = {Len(reply)}

\* four records summarized: three described, one stated as omitted
C10_Witness ==
    /\ op = "summary"
    /\ Len(summary_in) = 4
    /\ summary_in[1] # summary_in[2]
    /\ summary_in[2] # summary_in[3]
    /\ Len(reply) = 6
    /\ reply[5] = MoreOptions(1)

\* an absent numeric field read as 0, an absent text field read as ""
NumOf(o) == IF o = None THEN 0 ELSE Val(o)

TextOf(o) == IF o = None THEN <<>> ELSE Val(o)

TextOr(o, placeholder) == IF o = None THEN placeholder ELSE Val(o)

\* a returned record that lacks the field of a supplied criterion was
\* returned because 0 (or "") satisfies the criterion, not because the field
\* is missing
AbsentIsNoWildcard(prop, c) ==
    /\ (Supplied(c.bedrooms) /\ prop.bedrooms = None)
          => Val(c.bedrooms) = 0
    /\ (Supplied(c.bathrooms) /\ prop.bathrooms = None)
          => Val(c.bathrooms) = 0
    /\ (Supplied(c.min_price) /\ prop.price = None)
          => Val(c.min_price) <= 0
    /\ (Supplied(c.max_price) /\ prop.price = None)
          => 0 <= Val(c.max_price)
    /\ (Supplied(c.property_type) /\ prop.type = None)
          => Lower(Val(c.property_type)) = <<>>
    /\ (/\ Supplied(c.location)
        /\ None \in {prop.city, prop.neighborhood, prop.address})
          => Contains(Lower(Val(c.location)),
                      Lower(TextOf(prop.city)) \o <<" ">>
                      \o Lower(TextOf(prop.neighborhood)) \o <<" ">>
                      \o Lower(TextOf(prop.address)))

\* what the parts of a summary carry for each record they speak of, given
\* the texts that stand for an absent type, address and place
SummaryReads(noType, noAddress, noPlace) ==
    \A k \in 1..Len(reply) :
        /\ reply[k].kind = "item" =>
              LET prop == summary_in[reply[k].index]
              IN  /\ reply[k].bedrooms = NumOf(prop.bedrooms)
                  /\ reply[k].price = NumOf(prop.price)
                  /\ reply[k].type = TextOr(prop.type, noType)
                  /\ reply[k].place =
                        (IF prop.neighborhood # None
                         THEN Val(prop.neighborhood)
                         ELSE TextOr(prop.city, noPlace))
        /\ reply[k].kind = "single" =>
              LET prop == summary_in[1]
              IN  /\ reply[k].bedrooms = NumOf(prop.bedrooms)
                  /\ reply[k].bathrooms = NumOf(prop.bathrooms)
                  /\ reply[k].price = NumOf(prop.price)
                  /\ reply[k].type = TextOr(prop.type, noType)
                  /\ reply[k].address = TextOr(prop.address, noAddress)
                  /\ reply[k].description = TextOf(prop.description)

SummaryDone == op \in {"summary", "tool_search"}

\* C11 as stated: whatever non-id fields a record lacks, search, getById and
\* summarize do not raise, read an absent numeric field as 0 and an absent
\* text field as the empty string, and a supplied criterion does not match a
\* record merely because the record lacks the field.
C11_AbsentReadAsZeroOrEmpty ==
    /\ ~raised
    /\ SearchDone =>
          \A i \in 1..Len(results) : AbsentIsNoWildcard(results[i], criteria)
    /\ SummaryDone => SummaryReads(<<>>, <<>>, <<>>)

\* C11 (amended): whatever non-id fields a record lacks, search, getById and
\* summarize do not raise; an absent numeric field is read as 0; search reads
\* an absent text field as the empty string, and summarize reads an absent
\* description as the empty string but an absent type as "property", an
\* absent address as "an available location" and an absent neighborhood as
\* the city, or "the area" when the city is absent too; a supplied criterion
\* does not match a record merely because the record lacks the field.
C11_AbsentReadAsDefault ==
    /\ ~raised
    /\ SearchDone =>
          \A i \in 1..Len(results) : AbsentIsNoWildcard(results[i], criteria)
    /\ LookupDone =>
          (details = None \/ \E i \in 1..Len(properties) :
                                 details = Some(properties[i]))
    /\ SummaryDone =>
          SummaryReads(<<"property">>, <<"an available location">>,
                       <<"the area">>)

\* the search tool, given a maximum price, finds the record that has only an
\* id after a complete one, and describes both
C11_Witness ==
    /\ op = "tool_search"
    /\ criteria.max_price = Some(9500000)
    /\ results = <<RecA, RecC>>
    /\ Len(reply) = 4
    /\ reply[3].type = <<"property">>
    /\ reply[3].place = <<"the area">>
    /\ reply[3].price = 0

====
